---- MODULE Spec2Model ----
(***************************************************************************)
(* Model of pkg/cmd/dbcluster/describe.go: the "describe" sub-command of   *)
(* the database-cluster CLI.  DescribeOptions.Complete prepares the        *)
(* options, DescribeOptions.Run locates the resources, fetches each one    *)
(* with the dynamic client, projects it with buildClusterInfo and prints   *)
(* the resulting utils.DBClusterInfo.                                      *)
(***************************************************************************)
EXTENDS Integers, Sequences, FiniteSets, TLC

\* ---------------------------------------------------------------- bounds
\* longest list of infos, and most per-item errors, r.Infos() answers with
MaxInfos == 3
MaxSoftErrs == 2

\* ------------------------------------------------------ input alphabets
Namespaces == {"default", "prod"}
Names == {"db1", "db2"}
ErrTexts == {"no matches for kind", "forbidden"}

\* ---------------------------------------------- playground defaults etc.
PlaygroundSourceName == "types.PlaygroundSourceName"
DefaultRootUser == "playground.DefaultRootUser"
DefaultPort == "playground.DefaultPort"
DefaultEngine == "playground.DefaultEngine"
Storage == 2

\* --------------------------------------- Go interface{} values (tagged)
Nil == <<"nil">>
Str(s) == <<"string", s>>
I64(n) == <<"int64", n>>
Map(m) == <<"map", m>>
TypeOf(v) == v[1]
\* m[k] on a Go map: the zero value (a nil interface) when k is absent
Lookup(m, k) == IF k \in DOMAIN m THEN m[k] ELSE Nil

\* ------------------------------------------------------------ Go errors
NilErr == [kind |-> "nil", msg |-> "", errs |-> <<>>]
Err(kind, msg) == [kind |-> kind, msg |-> msg, errs |-> <<>>]
\* utilerrors.NewAggregate: nil for an empty list, else one aggregate error
NewAggregate(list) ==
  IF Len(list) = 0 THEN NilErr
  ELSE [kind |-> "aggregate", msg |-> "", errs |-> list]

\* the value carried by a failed x.(T): it names the two types, no path
TypeAssertionPanic(v, want) ==
  [kind |-> "TypeAssertionError", got |-> TypeOf(v), want |-> want]
NilFuncPanic == [kind |-> "nil func call", got |-> "", want |-> ""]
NoPanic == [kind |-> "none", got |-> "", want |-> ""]

\* ------------------------------------------------- utils.DBClusterInfo
ZeroClusterInfo ==
  [RootUser |-> "", DBPort |-> "", DBNamespace |-> "", DBCluster |-> "",
   Labels |-> "", Version |-> "", Instances |-> 0, ServerId |-> 0,
   Secret |-> "", StartTime |-> "", Status |-> "", OnlineInstances |-> 0,
   Topology |-> "", Engine |-> "", Storage |-> 0]

\* --------------------------------------------------- buildClusterInfo
\* obj.GetLabels(): metadata.labels as a string map, empty when absent
GetLabels(obj) ==
  LET md == Lookup(obj, "metadata")
  IN IF TypeOf(md) # "map" THEN <<>>
     ELSE LET l == Lookup(md[2], "labels")
          IN IF TypeOf(l) # "map" THEN <<>>
             ELSE [k \in DOMAIN l[2] |-> l[2][k][2]]

\* fmt.Sprintf("%s:%s ", k, v)
LabelSegment(k, v) == k \o ":" \o v \o " "

\* lines 180-182: range over the label map in the iteration order `order`
RECURSIVE RangeLabels(_, _, _)
RangeLabels(acc, labels, order) ==
  IF order = <<>> THEN acc
  ELSE RangeLabels(acc \o LabelSegment(Head(order), labels[Head(order)]),
                   labels, Tail(order))

\* lines 195-198
Topology_AtLeastOne(instances) == IF instances >= 1 THEN "Standalone" ELSE "Cluster"
Topology(instances) == IF instances = 1 THEN "Standalone" ELSE "Cluster"

Built(info) == [panicked |-> FALSE, panic |-> NoPanic, info |-> info]
\* a failed assertion x.(T): the panic unwinds buildClusterInfo and Run
Panicked_Tolerated(v, want) ==
  [panicked |-> FALSE, panic |-> NoPanic, info |-> ZeroClusterInfo]
Panicked(v, want) ==
  [panicked |-> TRUE, panic |-> TypeAssertionPanic(v, want), info |-> ZeroClusterInfo]

\* lines 179-201; the unchecked type assertions panic in source order
buildClusterInfo(obj, info, order) ==
  LET labels == RangeLabels(info.Labels, GetLabels(obj), order)
      status == Lookup(obj, "status")
      spec == Lookup(obj, "spec")
  IN
  IF TypeOf(status) # "map" THEN Panicked(status, "map") ELSE
  LET cluster == Lookup(status[2], "cluster") IN
  IF TypeOf(cluster) # "map" THEN Panicked(cluster, "map") ELSE
  IF TypeOf(spec) # "map" THEN Panicked(spec, "map") ELSE
  LET version == Lookup(spec[2], "version")
      instances == Lookup(spec[2], "instances")
      baseServerId == Lookup(spec[2], "baseServerId")
      secretName == Lookup(spec[2], "secretName")
      createTime == Lookup(status[2], "createTime")
      cstatus == Lookup(cluster[2], "status")
      onlineInstances == Lookup(cluster[2], "onlineInstances")
  IN
  IF TypeOf(version) # "string" THEN Panicked(version, "string") ELSE
  IF TypeOf(instances) # "int64" THEN Panicked(instances, "int64") ELSE
  IF TypeOf(baseServerId) # "int64" THEN Panicked(baseServerId, "int64") ELSE
  IF TypeOf(secretName) # "string" THEN Panicked(secretName, "string") ELSE
  IF TypeOf(createTime) # "string" THEN Panicked(createTime, "string") ELSE
  IF TypeOf(cstatus) # "string" THEN Panicked(cstatus, "string") ELSE
  IF TypeOf(onlineInstances) # "int64" THEN Panicked(onlineInstances, "int64") ELSE
  Built([info EXCEPT
           !.Labels = labels,
           !.Version = version[2],
           !.Instances = instances[2],
           !.ServerId = baseServerId[2],
           !.Secret = secretName[2],
           !.StartTime = createTime[2],
           !.Status = cstatus[2],
           !.OnlineInstances = onlineInstances[2],
           !.Topology = Topology(instances[2]),
           !.Engine = DefaultEngine,
           !.Storage = Storage])

\* ------------------------------------------- documents the API may return
Paths ==
  {"spec", "status", "status.cluster", "spec.version", "spec.instances",
   "spec.baseServerId", "spec.secretName", "status.createTime",
   "status.cluster.status", "status.cluster.onlineInstances"}
NoDefect == <<"", "none">>
Defects == {NoDefect} \cup (Paths \X {"missing", "wrongtype"})
LabelsOf(lc) ==
  IF lc = "one" THEN [k \in {"env"} |-> "prod"]
  ELSE IF lc = "two" THEN [k \in {"env", "tier"} |-> IF k = "env" THEN "prod" ELSE "db"]
  ELSE <<>>

\* a value of another dynamic type than `good`
Wrong(good) == IF TypeOf(good) = "string" THEN I64(7) ELSE Str("x")
Present(keys, prefix, d) == {k \in keys : d # <<prefix \o k, "missing">>}
Val(path, good, d) == IF d = <<path, "wrongtype">> THEN Wrong(good) ELSE good

\* unstructured.Unstructured.Object of the object ns/name, with defect d
MkDoc(ns, name, inst, lc, d) ==
  LET lbl == LabelsOf(lc)
      metadata ==
        [k \in {"namespace", "name"} \cup (IF lc = "absent" THEN {} ELSE {"labels"}) |->
           IF k = "namespace" THEN Str(ns)
           ELSE IF k = "name" THEN Str(name)
           ELSE Map([l \in DOMAIN lbl |-> Str(lbl[l])])]
      cluster ==
        [k \in Present({"status", "onlineInstances"}, "status.cluster.", d) |->
           IF k = "status" THEN Val("status.cluster.status", Str("Running"), d)
           ELSE Val("status.cluster.onlineInstances", I64(1), d)]
      status ==
        [k \in Present({"createTime", "cluster"}, "status.", d) |->
           IF k = "createTime" THEN Val("status.createTime", Str("t0"), d)
           ELSE Val("status.cluster", Map(cluster), d)]
      spec ==
        [k \in Present({"version", "instances", "baseServerId", "secretName"}, "spec.", d) |->
           IF k = "version" THEN Val("spec.version", Str("8.0.30"), d)
           ELSE IF k = "instances" THEN Val("spec.instances", I64(inst), d)
           ELSE IF k = "baseServerId" THEN Val("spec.baseServerId", I64(100), d)
           ELSE Val("spec.secretName", Str("s1"), d)]
  IN [k \in {"metadata"} \cup Present({"spec", "status"}, "", d) |->
        IF k = "metadata" THEN Map(metadata)
        ELSE IF k = "spec" THEN Val("spec", Map(spec), d)
        ELSE Val("status", Map(status), d)]

NoObj == <<>>

\* the documents a Get may answer with: <<spec.instances, label set, defect>>
DocChoices ==
  {<<1, "absent", NoDefect>>, <<1, "empty", NoDefect>>, <<1, "one", NoDefect>>,
   <<3, "two", NoDefect>>}
  \cup {<<1, "one", d>> : d \in Defects \ {NoDefect}}

\* the orders in which a Go range may visit the keys of a map
Orders(labels) ==
  LET n == Cardinality(DOMAIN labels)
  IN {s \in [1..n -> DOMAIN labels] : \A a, b \in 1..n : s[a] = s[b] => a = b}

\* sequences over S of length at most n
SeqsUpTo(S, n) == UNION {[1..m -> S] : m \in 0..n}
\* those that name no element twice (the locator lists an object once)
DistinctSeqsUpTo(S, n) ==
  {s \in SeqsUpTo(S, n) : \A a, b \in 1..Len(s) : s[a] = s[b] => a = b}

\* ResourceIdentity as found in resource.Info
Identities(namespaces) == [Namespace : namespaces, Name : Names]

\* ---------------------------------------------------------------- state
VARIABLES
  pc,           \* position of the command: start, run, loop, fetched, finish,
                \* returned, exited, panicked
  o,            \* the DescribeOptions
  completeErr,  \* what Complete returned
  infos,        \* the []*resource.Info returned by r.Infos()
  softErrs,     \* texts of the per-item errors the visitor met in r.Infos()
  err,          \* Run's function-scope variable err
  allErrs,      \* Run's allErrs
  errs,         \* Run's string set errs
  idx,          \* (1-based) position of the range loop in infos
  clusterInfo,  \* the loop body's clusterInfo
  obj,          \* the loop body's obj
  gets,         \* requests received by the dynamic client, with the outcome
  printed,      \* what utils.PrintClusterInfo has written, in order
  errOut,       \* lines written to o.ErrOut
  events,       \* order of the Get calls and of the prints
  retErr,       \* what Run returned
  panicVal      \* the value of an unrecovered panic

vars == <<pc, o, completeErr, infos, softErrs, err, allErrs, errs, idx,
          clusterInfo, obj, gets, printed, errOut, events, retErr, panicVal>>

runLocals == <<infos, softErrs, err, allErrs, errs, idx, clusterInfo, obj>>
outputs == <<gets, printed, errOut, events>>

\* lines 142-145: a fresh struct at the top of every loop iteration
NewClusterInfo_Reused ==
  [clusterInfo EXCEPT !.RootUser = DefaultRootUser, !.DBPort = DefaultPort]
NewClusterInfo ==
  [ZeroClusterInfo EXCEPT !.RootUser = DefaultRootUser, !.DBPort = DefaultPort]

\* the command lines tried, and the namespace the kubeconfig may name
ArgChoices == {<<>>, <<"db1", "db2">>}
ConfigNamespaces == {"default"}

\* lines 60-67: the zero DescribeOptions; AllNamespaces is an exported field
\* that Run honours (lines 123, 169), so its caller may have set it
Init ==
  /\ pc = "start"
  /\ o \in [Namespace : {""}, EnforceNamespace : {FALSE}, AllNamespaces : BOOLEAN,
            BuilderArgs : {<<>>}, client : {"unset"}, NewBuilder : {"unset"}]
  /\ completeErr = NilErr
  /\ infos = <<>> /\ softErrs = <<>> /\ err = NilErr /\ allErrs = <<>> /\ errs = {}
  /\ idx = 0 /\ clusterInfo = ZeroClusterInfo /\ obj = NoObj
  /\ gets = <<>> /\ printed = <<>> /\ errOut = <<>> /\ events = <<>>
  /\ retErr = NilErr /\ panicVal = NoPanic

\* cmdutil.CheckErr: a non-nil error ends the process
CheckErr(e, next) == IF e = NilErr THEN next ELSE "exited"

\* line 103-106: what Complete returns when f.ToRESTConfig() fails
OnRESTConfigError(e) == NilErr

\* lines 81-117, and CheckErr of line 73
Complete ==
  /\ pc = "start"
  /\ \E args \in ArgChoices, ns \in ConfigNamespaces, enforce \in BOOLEAN,
        nsFails \in BOOLEAN, cfgFails \in BOOLEAN, dynFails \in BOOLEAN :
       LET o1 == IF nsFails THEN [o EXCEPT !.Namespace = "", !.EnforceNamespace = FALSE]
                 ELSE [o EXCEPT !.Namespace = ns, !.EnforceNamespace = enforce]
           o2 == IF o1.AllNamespaces THEN [o1 EXCEPT !.EnforceNamespace = FALSE] ELSE o1
           o3 == [o2 EXCEPT !.BuilderArgs = <<PlaygroundSourceName>> \o args]
           o4 == [o3 EXCEPT !.client = "set", !.NewBuilder = "set"]
           res == IF Len(args) = 0 THEN <<o, Err("usage", "You must specify the database cluster name to describe.")>>
                  ELSE IF nsFails THEN <<o1, Err("config", "namespace")>>
                  ELSE IF cfgFails THEN <<o3, OnRESTConfigError(Err("config", "rest config"))>>
                  ELSE IF dynFails THEN <<o3, Err("config", "dynamic client")>>
                  ELSE <<o4, NilErr>>
       IN /\ o' = res[1]
          /\ completeErr' = res[2]
          /\ pc' = CheckErr(res[2], "run")
  /\ UNCHANGED <<runLocals, outputs, retErr, panicVal>>

\* r.Infos() under ContinueOnError: the infos visited without error, and the
\* per-item errors folded into one error (nil when there were none)
InfosErr(texts) ==
  IF Len(texts) = 0 THEN NilErr
  ELSE IF Len(texts) = 1 THEN Err("item", texts[1])
  ELSE NewAggregate([n \in 1..Len(texts) |-> Err("item", texts[n])])

\* lines 120-138: build the request, r.Err(), r.Infos()
RunLocate ==
  /\ pc = "run"
  /\ IF o.NewBuilder = "unset"
     THEN \* line 120 calls a nil func value
          /\ pc' = "panicked" /\ panicVal' = NilFuncPanic
          /\ UNCHANGED <<infos, softErrs, err, retErr>>
     ELSE \E hard \in BOOLEAN,
             found \in DistinctSeqsUpTo(Identities(IF o.AllNamespaces THEN Namespaces ELSE {o.Namespace}), MaxInfos),
             texts \in SeqsUpTo(ErrTexts, MaxSoftErrs) :
            IF hard
            THEN /\ found = <<>> /\ texts = <<>>
                 /\ err' = Err("locator", "builder") /\ retErr' = err'
                 /\ pc' = "returned"
                 /\ UNCHANGED <<infos, softErrs, panicVal>>
            ELSE /\ infos' = found /\ softErrs' = texts
                 /\ err' = InfosErr(texts)
                 /\ IF err' # NilErr
                    THEN retErr' = err' /\ pc' = "returned"
                    ELSE retErr' = retErr /\ pc' = "loop"
                 /\ UNCHANGED panicVal
  /\ idx' = 1
  /\ UNCHANGED <<o, completeErr, allErrs, errs, clusterInfo, obj, outputs>>

\* line 159: the namespace the Get request is addressed to
GetNamespace_OfInfo(opts, info) == info.Namespace
GetNamespace(opts, info) == opts.Namespace

\* line 160-162: a failed Get ends Run with the error of the Get
OnGetError_Continue(e) == [ret |-> NilErr, next |-> "loop", step |-> 1]
OnGetError(e) == [ret |-> e, next |-> "returned", step |-> 0]

\* lines 141-162: one loop iteration up to the Get
RunFetch ==
  /\ pc = "loop" /\ idx <= Len(infos)
  /\ LET info == infos[idx] IN
     /\ clusterInfo' = IF err # NilErr THEN NewClusterInfo
                       ELSE [NewClusterInfo EXCEPT !.DBNamespace = info.Namespace,
                                                   !.DBCluster = info.Name]
     /\ IF err # NilErr
        THEN \* lines 148-155, on the function-scope err
             /\ IF err.msg \in errs
                THEN UNCHANGED <<allErrs, errs>>
                ELSE allErrs' = Append(allErrs, err) /\ errs' = errs \cup {err.msg}
             /\ idx' = idx + 1
             /\ UNCHANGED <<pc, obj, gets, events, retErr>>
        ELSE \E fails \in BOOLEAN, c \in DocChoices :
               LET ns == GetNamespace(o, info)
                   doc == MkDoc(ns, info.Name, c[1], c[2], c[3])
                   getErr == Err("get", "get " \o ns \o "/" \o info.Name)
                   req == [idx |-> idx, ns |-> ns, name |-> info.Name, ok |-> ~fails,
                           err |-> IF fails THEN getErr ELSE NilErr,
                           obj |-> IF fails THEN NoObj ELSE doc]
                   onErr == OnGetError(getErr)
               IN /\ fails => c = <<1, "empty", NoDefect>>
                  /\ gets' = Append(gets, req)
                  /\ events' = Append(events, <<"get", idx>>)
                  /\ IF fails
                     THEN /\ retErr' = onErr.ret /\ pc' = onErr.next
                          /\ idx' = idx + onErr.step
                          /\ obj' = NoObj
                     ELSE /\ obj' = doc /\ pc' = "fetched"
                          /\ UNCHANGED <<retErr, idx>>
                  /\ UNCHANGED <<allErrs, errs>>
  /\ UNCHANGED <<o, completeErr, infos, softErrs, err, printed, errOut, panicVal>>

\* utils.PrintClusterInfo
PrintClusterInfo(out, info) == Append(out, info)

\* lines 163-164: project the fetched object and print the result
RunProject ==
  /\ pc = "fetched"
  /\ \E order \in Orders(GetLabels(obj)) :
       LET b == buildClusterInfo(obj, clusterInfo, order) IN
       IF b.panicked
       THEN /\ pc' = "panicked" /\ panicVal' = b.panic
            /\ UNCHANGED <<clusterInfo, printed, events, idx>>
       ELSE /\ clusterInfo' = b.info
            /\ printed' = PrintClusterInfo(printed, b.info)
            /\ events' = Append(events, <<"print", idx>>)
            /\ idx' = idx + 1
            /\ pc' = "loop"
            /\ UNCHANGED panicVal
  /\ UNCHANGED <<o, completeErr, infos, softErrs, err, allErrs, errs, obj, gets,
                 errOut, retErr>>

\* line 167
NoResources_IgnoreInfos(found, errList) == Len(errList) = 0
NoResources(found, errList) == Len(found) = 0 /\ Len(errList) = 0

\* lines 169-173
NoResourcesLine(opts) ==
  IF opts.AllNamespaces THEN "No resources found"
  ELSE "No resources found in " \o opts.Namespace \o " namespace."

\* lines 167-176: after the loop
RunFinish ==
  /\ pc = "loop" /\ idx > Len(infos)
  /\ errOut' = IF NoResources(infos, allErrs) THEN Append(errOut, NoResourcesLine(o))
               ELSE errOut
  /\ retErr' = NewAggregate(allErrs)
  /\ pc' = "returned"
  /\ UNCHANGED <<o, completeErr, runLocals, gets, printed, events, panicVal>>

Next == Complete \/ RunLocate \/ RunFetch \/ RunProject \/ RunFinish

Spec == Init /\ [][Next]_vars

\* ------------------------------------------------------------ properties
\* the value found in an untyped tree by following a path of keys
RECURSIVE Walk(_, _)
Walk(v, path) ==
  IF path = <<>> THEN v
  ELSE IF TypeOf(v) # "map" THEN Nil
  ELSE Walk(Lookup(v[2], Head(path)), Tail(path))

RequiredFields ==
  {<<<<"spec", "version">>, "string">>,
   <<<<"spec", "instances">>, "int64">>,
   <<<<"spec", "baseServerId">>, "int64">>,
   <<<<"spec", "secretName">>, "string">>,
   <<<<"status", "createTime">>, "string">>,
   <<<<"status", "cluster", "status">>, "string">>,
   <<<<"status", "cluster", "onlineInstances">>, "int64">>}

WellFormed(doc) == \A f \in RequiredFields : TypeOf(Walk(Map(doc), f[1])) = f[2]

\* the k-th Get has been answered and its answer has gone through the projection
Projected(k) == k < Len(gets) \/ pc # "fetched"

\* Run left the loop and reached line 167
FinishedLoop == pc = "returned" /\ err = NilErr /\ idx > Len(infos)

\* C1: when the Get of the k-th identity fails, Run has returned exactly that
\* error (not an aggregate), the summaries of identities 1..k-1 and no other
\* have been printed in order, and no Get follows the failed one.
C1_FetchFailureAborts ==
  \A k \in 1..Len(gets) :
    ~gets[k].ok =>
      /\ k = Len(gets)
      /\ \A j \in 1..k : gets[j].idx = j /\ gets[j].name = infos[j].Name
      /\ pc = "returned"
      /\ retErr = gets[k].err
      /\ retErr.kind = "get"
      /\ Len(printed) = k - 1
      /\ \A j \in 1..(k - 1) :
           /\ printed[j].DBNamespace = infos[j].Namespace
           /\ printed[j].DBCluster = infos[j].Name

C1_Witness ==
  /\ pc = "returned" /\ Len(infos) = 3 /\ Len(gets) = 2
  /\ ~gets[2].ok /\ Len(printed) = 1 /\ retErr = gets[2].err

\* C2: when Run has returned and a per-item error was met while locating (and
\* no Get failed), every located identity has been processed and printed, and
\* the returned error is the aggregate of the recorded errors, which is not empty.
C2_SoftErrorDoesNotAbort ==
  (pc = "returned" /\ softErrs # <<>> /\ \A k \in 1..Len(gets) : gets[k].ok) =>
    /\ Len(printed) = Len(infos)
    /\ Len(allErrs) >= 1
    /\ retErr = NewAggregate(allErrs)

\* C3: when Run has returned and two per-item errors had the same text (and no
\* Get failed), exactly one error with that text has been recorded.
C3_SoftErrorsDeduplicated ==
  (pc = "returned" /\ \A k \in 1..Len(gets) : gets[k].ok) =>
    \A a, b \in 1..Len(softErrs) :
      (a < b /\ softErrs[a] = softErrs[b]) =>
        Cardinality({n \in 1..Len(allErrs) : allErrs[n].msg = softErrs[a]}) = 1

\* C4: "No resources found" is on ErrOut exactly when Run went through the
\* whole loop with no identity located and no error recorded; it is then
\* written once, nothing was printed, Run returned nil, and the wording names
\* the namespace iff AllNamespaces is false.
C4_NoResourcesDiagnostic ==
  /\ Len(errOut) <= 1
  /\ (errOut # <<>>) <=> (FinishedLoop /\ Len(infos) = 0 /\ Len(allErrs) = 0)
  /\ Len(infos) >= 1 => errOut = <<>>
  /\ errOut # <<>> =>
       /\ printed = <<>>
       /\ retErr = NilErr
       /\ o.AllNamespaces => errOut[1] = "No resources found"
       /\ ~o.AllNamespaces =>
            errOut[1] = "No resources found in " \o o.Namespace \o " namespace."

C4_Witness ==
  /\ pc = "returned" /\ errOut # <<>> /\ ~o.AllNamespaces /\ o.Namespace = "default"

\* C5: once a fetched document that lacks a required field (or holds it with
\* the wrong type) has gone through the projection, Run has returned a
\* MalformedResourceError naming that field, and no summary was printed for it.
C5_MalformedIsReturnedError ==
  \A k \in 1..Len(gets) :
    (gets[k].ok /\ ~WellFormed(gets[k].obj) /\ Projected(k)) =>
      /\ pc = "returned"
      /\ retErr.kind = "MalformedResourceError"
      /\ \E f \in RequiredFields : TypeOf(Walk(Map(gets[k].obj), f[1])) # f[2]
      /\ Len(printed) = k - 1

\* C6: every fetched document whose seven required fields are present and
\* correctly typed is projected without failure; the summary holds the
\* document's values unchanged, and topology is "Standalone" iff instances = 1,
\* "Cluster" otherwise.
C6_ProjectionCopiesFields ==
  \A k \in 1..Len(gets) :
    (gets[k].ok /\ WellFormed(gets[k].obj) /\ Projected(k)) =>
      /\ k <= Len(printed)
      /\ LET doc == Map(gets[k].obj)
             info == printed[k]
         IN /\ info.Version = Walk(doc, <<"spec", "version">>)[2]
            /\ info.Instances = Walk(doc, <<"spec", "instances">>)[2]
            /\ info.ServerId = Walk(doc, <<"spec", "baseServerId">>)[2]
            /\ info.Secret = Walk(doc, <<"spec", "secretName">>)[2]
            /\ info.StartTime = Walk(doc, <<"status", "createTime">>)[2]
            /\ info.Status = Walk(doc, <<"status", "cluster", "status">>)[2]
            /\ info.OnlineInstances = Walk(doc, <<"status", "cluster", "onlineInstances">>)[2]
            /\ (info.Topology = "Standalone") <=> (info.Instances = 1)
            /\ (info.Topology = "Cluster") <=> (info.Instances # 1)

C6_Witness ==
  /\ Len(printed) >= 2
  /\ printed[1].Instances = 3 /\ printed[1].Topology = "Cluster"
  /\ printed[1].Labels # ""
  /\ printed[2].Instances = 1 /\ printed[2].Topology = "Standalone"
  /\ printed[2].Labels = ""

\* C7: at every point of Run the Get calls and the prints alternate, identity
\* by identity in the order of infos; the j-th summary printed is that of the
\* j-th identity, and an identity has a summary exactly when its Get succeeded
\* and its document went through the projection without failure.
C7_SummariesMatchFetches ==
  /\ Len(events) \in {2 * Len(printed), 2 * Len(printed) + 1}
  /\ \A n \in 1..Len(events) :
       events[n] = IF n % 2 = 1 THEN <<"get", (n + 1) \div 2>> ELSE <<"print", n \div 2>>
  /\ Len(printed) <= Len(infos)
  /\ \A j \in 1..Len(printed) :
       /\ printed[j].DBNamespace = infos[j].Namespace
       /\ printed[j].DBCluster = infos[j].Name
  /\ \A k \in 1..Len(gets) :
       /\ gets[k].idx = k
       /\ (k <= Len(printed)) <=> (gets[k].ok /\ WellFormed(gets[k].obj) /\ Projected(k))

C7_Witness ==
  /\ pc = "fetched" /\ Len(printed) = 2 /\ Len(gets) = 3
  /\ events = <<(<<"get", 1>>), (<<"print", 1>>), (<<"get", 2>>), (<<"print", 2>>), (<<"get", 3>>)>>

\* the label pairs of a document, rendered in the order given
RECURSIVE ExpectedLabels(_, _)
ExpectedLabels(labels, order) ==
  IF order = <<>> THEN ""
  ELSE Head(order) \o ":" \o labels[Head(order)] \o " " \o ExpectedLabels(labels, Tail(order))

\* C8: the labels of every printed summary are made of the label pairs of the
\* document fetched for that identity alone, one "key:value " segment per pair
\* in some order, and are "" when that document has no labels, whatever was
\* printed before.
C8_LabelsFromOwnDocument ==
  \A k \in 1..Len(printed) :
    LET labels == GetLabels(gets[k].obj)
    IN /\ \E order \in Orders(labels) : printed[k].Labels = ExpectedLabels(labels, order)
       /\ DOMAIN labels = {} => printed[k].Labels = ""

C8_Witness ==
  /\ Len(printed) = 3
  /\ printed[1].Labels = "env:prod "
  /\ printed[2].Labels = ""
  /\ printed[3].Labels = "tier:db env:prod "

\* C9: every Get is addressed to the namespace and name of the identity it is
\* issued for, so a printed summary carries the namespace and name of the
\* object its document belongs to.
C9_GetUsesOwnNamespace ==
  /\ \A k \in 1..Len(gets) :
       /\ gets[k].ns = infos[gets[k].idx].Namespace
       /\ gets[k].name = infos[gets[k].idx].Name
  /\ \A k \in 1..Len(printed) :
       /\ printed[k].DBNamespace = Walk(Map(gets[k].obj), <<"metadata", "namespace">>)[2]
       /\ printed[k].DBCluster = Walk(Map(gets[k].obj), <<"metadata", "name">>)[2]

\* C10: once Complete has returned nil, the dynamic client and NewBuilder are
\* set, so Run never starts without them.
C10_CompleteNilMeansInitialised ==
  (pc # "start" /\ completeErr = NilErr) =>
    /\ o.client = "set"
    /\ o.NewBuilder = "set"
    /\ panicVal # NilFuncPanic

====
